---- MODULE Spec2Model ----
(***************************************************************************)
(* RateRover: the scrape pipeline and the snapshot store of src/main.py    *)
(* and the rate queries of src/bot.py.                                     *)
(*                                                                         *)
(* The specifications share the module's variables:                        *)
(*   Spec       overlapping store writers and readers, one step per        *)
(*              system call on exchange_rates.json                         *)
(*   SpecStore  update_or_add_record calls one after the other, over days  *)
(*   SpecRun    SuperrichAPI.run, one step per method of the pipeline      *)
(*   SpecBot    the bot's cache of the series and get_latest_rates         *)
(*   SpecRates  the bot's /rates command                                    *)
(*   SpecHist   the bot's /currencyrates command                            *)
(*   SpecQuery  the bot's queries and reloads over damaged documents        *)
(*   SpecDaily  the bot's subscriptions and its hourly send_daily_rates job *)
(***************************************************************************)
EXTENDS Integers, Sequences, FiniteSets, TLC

VARIABLES
    clock,          \* the system clock, as a proleptic Gregorian day ordinal
    file,           \* exchange_rates.json: the text on disk, a sequence of tokens
    last,           \* the last completed update_or_add_record call (SpecStore)
    nwrites,        \* update_or_add_record calls made so far (SpecStore)
    wr,             \* each overlapping update_or_add_record call: its position and locals
    lock,           \* the holder of the flock on the file, or NoOne
    rd,             \* what the last load_data of a concurrent reader returned
    bot,            \* the bot: its cached series and the results of its last calls
    api,            \* the SuperrichAPI instance: username, password, data
    run,            \* the run() in progress: its position, locals and inputs
    prevRun,        \* the run() before it, as it ended
    users,          \* the users table of users.db: a row for each chat id
    sched           \* the bot's job queue: the time and the last daily job

vars ==
    <<clock, file, last, nwrites, wr, lock, rd, bot, api, run, prevRun, users,
      sched>>

dailyVars == <<users, sched>>

runVars == <<api, run, prevRun>>

storeVars == <<last, nwrites>>

writerVars == <<wr, lock, rd>>

(***************************************************************************)
(* Bounds of the model.                                                    *)
(***************************************************************************)
\* days the clock may advance past FirstDay
MaxDays == 21
\* update_or_add_record calls in one behaviour of SpecStore
MaxWrites == 2
\* days with a snapshot in the series the bot starts from (SpecBot)
MaxKeys == 3
\* run() calls on one SuperrichAPI instance in one behaviour of SpecRun
MaxRuns == 2
\* days in a document with gaps between its days (SpecHist)
MaxGapKeys == 2

(***************************************************************************)
(* Dates. datetime.date holds (year, month, day); timedelta arithmetic     *)
(* goes through the day ordinal; comparison is on (year, month, day).      *)
(***************************************************************************)
is_leap(y) == y % 4 = 0 /\ (y % 100 # 0 \/ y % 400 = 0)

DAYS_IN_MONTH == <<31, 28, 31, 30, 31, 30, 31, 31, 30, 31, 30, 31>>

DAYS_BEFORE_MONTH == <<0, 31, 59, 90, 120, 151, 181, 212, 243, 273, 304, 334>>

days_before_year(year) ==
    LET y == year - 1 IN y * 365 + (y \div 4) - (y \div 100) + (y \div 400)

days_before_month(y, m) ==
    DAYS_BEFORE_MONTH[m] + (IF m > 2 /\ is_leap(y) THEN 1 ELSE 0)

\* date.toordinal(): a date is <<year, month, day>>
ymd2ord(d) == days_before_year(d[1]) + days_before_month(d[1], d[2]) + d[3]

\* date.fromordinal()
ord2ymd(ord) ==
    LET n0   == ord - 1
        n400 == n0 \div 146097
        r400 == n0 % 146097
        n100 == r400 \div 36524
        r100 == r400 % 36524
        n4   == r100 \div 1461
        r4   == r100 % 1461
        n1   == r4 \div 365
        n    == r4 % 365
        year == n400 * 400 + 1 + n100 * 100 + n4 * 4 + n1
        leap == n1 = 3 /\ (n4 # 24 \/ n100 = 3)
        m0   == (n + 50) \div 32
        p0   == DAYS_BEFORE_MONTH[m0] + (IF m0 > 2 /\ leap THEN 1 ELSE 0)
        month == IF p0 > n THEN m0 - 1 ELSE m0
        prec == IF p0 > n
                THEN p0 - (DAYS_IN_MONTH[month] + (IF month = 2 /\ leap THEN 1 ELSE 0))
                ELSE p0
    IN  IF n1 = 4 \/ n100 = 4
        THEN <<year - 1, 12, 31>>
        ELSE <<year, month, n - prec + 1>>

\* date >= date: Python compares (year, month, day)
DateGeq(a, b) ==
    \/ a[1] > b[1]
    \/ a[1] = b[1] /\ a[2] > b[2]
    \/ a[1] = b[1] /\ a[2] = b[2] /\ a[3] >= b[3]

(***************************************************************************)
(* Strings are sequences of character codes ("0" is 48, "-" is 45).        *)
(***************************************************************************)
Chr(digit) == 48 + digit

\* date.isoformat(): "%04d-%02d-%02d"
isoformat(d) ==
    << Chr(d[1] \div 1000), Chr((d[1] \div 100) % 10), Chr((d[1] \div 10) % 10),
       Chr(d[1] % 10), 45,
       Chr(d[2] \div 10), Chr(d[2] % 10), 45,
       Chr(d[3] \div 10), Chr(d[3] % 10) >>

\* datetime.fromisoformat(k).date(), for a key "YYYY-MM-DD"
fromisoformat(s) ==
    << (s[1] - 48) * 1000 + (s[2] - 48) * 100 + (s[3] - 48) * 10 + (s[4] - 48),
       (s[6] - 48) * 10 + (s[7] - 48),
       (s[9] - 48) * 10 + (s[10] - 48) >>

\* str < str: the first differing character decides, a proper prefix is smaller
StrLess(a, b) ==
    \/ \E i \in 1..Len(a) :
          /\ i <= Len(b)
          /\ a[i] < b[i]
          /\ \A j \in 1..(i - 1) : a[j] = b[j]
    \/ Len(a) < Len(b) /\ \A j \in 1..Len(a) : a[j] = b[j]

\* datetime.now().date()
Today(clk) == ord2ymd(clk)

\* the day the model's clock starts at: the window crosses a year's end
FirstDay == ymd2ord(<<2023, 12, 15>>)

LastDay == FirstDay + MaxDays

(***************************************************************************)
(* Snapshots. A rates mapping is a function currency -> RateRecord; rates  *)
(* are in hundredths. A series (a Python dict, which keeps insertion       *)
(* order) is a sequence of <<key, snapshot>> pairs with distinct keys.     *)
(***************************************************************************)
RateRecord(name, buy, sell) ==
    [countryName |-> name, buyingRate |-> buy, sellingRate |-> sell]

RatesA == [c \in {"USD"} |-> RateRecord("United States", 3350, 3400)]

RatesB ==
    [c \in {"USD", "EUR"} |->
        IF c = "USD" THEN RateRecord("United States", 3360, 3410)
                     ELSE RateRecord("Euro Zone", 3700, 3790)]

RateSets == {RatesA, RatesB}

\* store_results: {"timestamp": datetime.now().isoformat(), "rates": rates}
NewRecord(clk, rates) == [timestamp |-> isoformat(Today(clk)), rates |-> rates]

Keys(data) == {data[i][1] : i \in 1..Len(data)}

HasKey(data, k) == k \in Keys(data)

\* data[k]
GetItem(data, k) == data[CHOOSE i \in 1..Len(data) : data[i][1] = k][2]

\* an assignment that never replaces
SetItemAppending(data, k, v) == Append(data, <<k, v>>)

\* data[k] = v: an existing key keeps its place, a new one goes last
SetItem(data, k, v) ==
    IF HasKey(data, k)
    THEN [i \in 1..Len(data) |-> IF data[i][1] = k THEN <<k, v>> ELSE data[i]]
    ELSE Append(data, <<k, v>>)

(***************************************************************************)
(* The JSON text of the file, as tokens: <<"{">>, one <<"e", key, value>>  *)
(* per top-level entry, <<"}">>; <<"nul">> is a hole left by a write past  *)
(* the end of the file.                                                    *)
(***************************************************************************)
\* json.dump(data, file, indent=4): the text written
dump(data) ==
    <<(<<"{">>)>> \o [i \in 1..Len(data) |-> <<"e", data[i][1], data[i][2]>>]
                \o <<(<<"}">>)>>

\* whether json.load accepts the text
WellFormed(text) ==
    /\ Len(text) >= 2
    /\ text[1] = <<"{">>
    /\ text[Len(text)] = <<"}">>
    /\ \A i \in 2..(Len(text) - 1) : text[i][1] = "e"

RECURSIVE PairsToDict(_)
\* the dict json.load builds from the entries in order
PairsToDict(entries) ==
    IF entries = <<>> THEN <<>>
    ELSE LET e == entries[Len(entries)]
         IN  SetItem(PairsToDict(SubSeq(entries, 1, Len(entries) - 1)), e[2], e[3])

\* json.load(file) of a well-formed text
loads(text) == PairsToDict(SubSeq(text, 2, Len(text) - 1))

(***************************************************************************)
(* ExchangeRateStorage                                                     *)
(***************************************************************************)
\* ExchangeRateStorage.load_data: a JSONDecodeError gives the empty dataset
load_data(text) == IF WellFormed(text) THEN loads(text) ELSE <<>>

\* the days kept by update_or_add_record
RetentionDays == 14

\* datetime.now() - timedelta(days=14), as a date
CutoffDate(clk) == ord2ymd(clk - RetentionDays)

\* a comparison that drops the key dated exactly at the cutoff
KeepKeyAfterCutoff(k, cutoff) == ~DateGeq(cutoff, fromisoformat(k))

KeepKey(k, cutoff) == DateGeq(fromisoformat(k), cutoff)

KeepEntry(e, cutoff) == KeepKey(e[1], cutoff)

\* an update that removes no entry
PruneNothing(data, cutoff) == data

\* {k: v for k, v in data.items() if fromisoformat(k).date() >= cutoff.date()}
Prune(data, cutoff) ==
    LET Keep(e) == KeepEntry(e, cutoff) IN SelectSeq(data, Keep)

\* update_or_add_record up to save_data: the dataset it hands to save_data,
\* the clock read at line 68 being clk1 and at line 75 clk2
UpdatedData(data, new_record, clk1, clk2) ==
    Prune(SetItem(data, isoformat(Today(clk1)), new_record), CutoffDate(clk2))

(***************************************************************************)
(* SpecStore: the store written by one caller at a time, over the days.    *)
(***************************************************************************)
NoWrite ==
    [n |-> 0, today |-> <<>>, cutoff |-> <<>>, before |-> <<>>, record |-> <<>>,
     first |-> <<>>, midnight |-> FALSE, sameDay |-> TRUE]

\* the file as __init__ creates it (json.dump({}, file)), or as a first
\* update_or_add_record on FirstDay left it
InitFiles ==
    { dump(<<>>),
      dump(UpdatedData(<<>>, NewRecord(FirstDay, RatesA), FirstDay, FirstDay)) }

\* the processes that may call update_or_add_record at overlapping times
Writers == {"cron", "manual"}

NoOne == "none"

IdleWriter ==
    [pc |-> "idle", rates |-> <<>>, data |-> <<>>, out |-> <<>>, off |-> 0,
     raised |-> FALSE]

NoRead == [done |-> FALSE, malformed |-> FALSE, series |-> <<>>]

\* ExchangeRateBot before __init__ has loaded the series
NoLatest == [called |-> FALSE, of |-> <<>>, result |-> <<>>]

\* no reply sent yet to a /rates command
NoReply ==
    [kind |-> "none", of |-> <<>>, currencies |-> <<>>, message |-> <<>>,
     replies |-> <<>>, escaped |-> FALSE, loaded |-> <<>>]

\* no reply sent yet to a /currencyrates command
NoHistory ==
    [kind |-> "none", of |-> <<>>, currency |-> "", selected |-> <<>>,
     points |-> <<>>, replies |-> <<>>, escaped |-> FALSE, loaded |-> <<>>]

\* loaded is the series the last load that returned gave; reload is how the
\* last reload_exchange_rates ended
NoBot ==
    [started |-> FALSE, exchange_rates |-> <<>>, load |-> "none",
     latest |-> NoLatest, reply |-> NoReply, history |-> NoHistory,
     loaded |-> <<>>, reload |-> "none"]

\* no number: the default "N/A" of dict.get in format_rates_message, a NULL
\* in the users table
NA == [some |-> FALSE, val |-> 0]

\* a Python dict with no keys
EmptyDict == [c \in {} |-> 0]

\* an optional value: None (of a string, of a dict), or Some(v)
NoneStr == [some |-> FALSE, val |-> <<>>]

NoneDict == [some |-> FALSE, val |-> EmptyDict]

Some(v) == [some |-> TRUE, val |-> v]

\* not v: None, "" and {} are false
Falsy(v) == ~v.some \/ DOMAIN v.val = {}

\* SuperrichAPI.__init__: username, password and data are None
NewApi == [username |-> NoneStr, password |-> NoneStr, data |-> NoneDict]

NoRun ==
    [n |-> 0, pc |-> "idle", failed_at |-> "", file0 |-> <<>>,
     js_status |-> 0, js_content |-> NoneDict, encoded_auth |-> NoneDict,
     decoded |-> FALSE, api_requests |-> 0, api_status |-> 0, body |-> NoneDict,
     rates |-> NoneDict, store_writes |-> 0, today |-> <<>>,
     store_fault |-> "none", reported |-> "", api0 |-> NewApi]

InitPipelineIdle ==
    /\ api = NewApi
    /\ run = NoRun
    /\ prevRun = NoRun

\* the chats that talk to the bot
ChatIds == {1, 2}

\* no row for the chat id in the users table
NoRow ==
    [subscribed |-> FALSE, timezone |-> "", currencies |-> <<>>,
     timezone_offset |-> NA]

\* the job queue before start_scheduler
NoSched == [running |-> FALSE, now |-> 0, sent |-> {}]

InitDailyIdle ==
    /\ users = [u \in ChatIds |-> NoRow]
    /\ sched = NoSched


InitStore ==
    /\ clock = FirstDay
    /\ file \in InitFiles
    /\ last = NoWrite
    /\ nwrites = 0
    /\ wr = [w \in Writers |-> IdleWriter]
    /\ lock = NoOne
    /\ rd = NoRead
    /\ bot = NoBot
    /\ InitPipelineIdle
    /\ InitDailyIdle

\* midnight passes
Tick ==
    /\ clock < LastDay
    /\ clock' = clock + 1
    /\ UNCHANGED <<dailyVars, file, last, nwrites, writerVars, bot, runVars>>

\* update_or_add_record(new_record), alone on the file. Midnight may pass
\* between the two datetime.now() of lines 68 and 75.
UpdateOrAddRecord(rates, clk2) ==
    LET data   == load_data(file)
        today  == isoformat(Today(clock))
        rec    == NewRecord(clock, rates)
        saved  == UpdatedData(data, rec, clock, clk2)
        again  == last.n > 0 /\ last.today = today
    IN  /\ nwrites < MaxWrites
        /\ clk2 <= LastDay
        /\ file' = dump(saved)
        /\ clock' = clk2
        /\ nwrites' = nwrites + 1
        /\ last' = [n       |-> IF again THEN last.n + 1 ELSE 1,
                    today   |-> today,
                    cutoff  |-> CutoffDate(clk2),
                    before  |-> data,
                    record  |-> rec,
                    first   |-> IF again THEN last.first ELSE saved,
                    midnight |-> clk2 # clock,
                    sameDay |-> (clk2 = clock) /\ (again => last.sameDay)]
        /\ UNCHANGED <<dailyVars, writerVars, bot, runVars>>

NextStore ==
    \/ Tick
    \/ \E rates \in RateSets, clk2 \in {clock, clock + 1} :
          UpdateOrAddRecord(rates, clk2)

SpecStore == InitStore /\ [][NextStore]_vars

(***************************************************************************)
(* Claims on the store written by one caller at a time (SpecStore).        *)
(***************************************************************************)
\* the day ordinal a key names
DayOf(k) == ymd2ord(fromisoformat(k))

Entries(data) == {data[i] : i \in 1..Len(data)}

\* the entries of the text on disk whose key is k
FileEntriesFor(k) == {i \in 1..Len(file) : file[i][1] = "e" /\ file[i][2] = k}

\* C3: after an update_or_add_record made on date D (both clock reads on D)
\* over key set K, the persisted key set is {k in K : k >= D - 14 days} with D
\* added: nothing older than D - 14 stays, D - 14 itself stays, nothing in
\* the window is dropped.
C3_PruneKeepsExactlyWindow ==
    (last.n > 0 /\ ~last.midnight) =>
        Keys(load_data(file)) =
            {k \in Keys(last.before) : DayOf(k) >= DayOf(last.today) - 14}
                \cup {last.today}

\* a write on D over keys D - 15 and D - 14 has happened: D - 14 and D remain
C3_Witness ==
    /\ last.n > 0 /\ ~last.midnight
    /\ \E k \in Keys(last.before) : DayOf(k) = DayOf(last.today) - 14
    /\ \E k \in Keys(last.before) : DayOf(k) = DayOf(last.today) - 15
    /\ Cardinality(Keys(load_data(file))) = 2

\* C4: after two or more writes on one date (none of them across midnight)
\* the text holds exactly one entry for that date, its value is the record
\* of the last write, and the other entries are those left by the first.
C4_IdempotentPerDate ==
    (last.n >= 2 /\ last.sameDay) =>
        /\ Cardinality(FileEntriesFor(last.today)) = 1
        /\ GetItem(load_data(file), last.today) = last.record
        /\ {e \in Entries(load_data(file)) : e[1] # last.today}
             = {e \in Entries(last.first) : e[1] # last.today}

\* a second write on the same date replaced a different record, next to an
\* entry of an earlier date
C4_Witness ==
    /\ last.n >= 2 /\ last.sameDay
    /\ HasKey(last.first, last.today)
    /\ GetItem(last.first, last.today) # last.record
    /\ Cardinality(Keys(load_data(file))) >= 2

(***************************************************************************)
(* ExchangeRateBot: the reads of the series.                               *)
(***************************************************************************)
\* a choice of the smallest string instead
MinStr(S) == CHOOSE m \in S : \A k \in S : k = m \/ StrLess(m, k)

\* the greatest of a non-empty set of strings
MaxStr(S) == CHOOSE m \in S : \A k \in S : k = m \/ StrLess(k, m)

RECURSIVE sorted_reverse(_)
\* sorted(keys, reverse=True) over distinct strings
sorted_reverse(S) ==
    IF S = {} THEN <<>>
    ELSE LET m == MaxStr(S) IN <<m>> \o sorted_reverse(S \ {m})

NoRates == EmptyDict

\* ExchangeRateBot.get_latest_rates: (latest_date, latest_rates,
\* previous_rates); previous_rates is None when has_previous is FALSE; any
\* exception (an empty series: sorted_dates[0]; a snapshot without "rates")
\* is logged and raised again
get_latest_rates(exchange_rates) ==
    LET sorted_dates == sorted_reverse(Keys(exchange_rates))
        NoRatesAt(i) == "rates" \notin DOMAIN GetItem(exchange_rates, sorted_dates[i])
    IN  IF \/ Len(sorted_dates) = 0
           \/ NoRatesAt(1)
           \/ Len(sorted_dates) > 1 /\ NoRatesAt(2)
        THEN [raised |-> TRUE, latest_date |-> <<>>, latest_rates |-> NoRates,
              has_previous |-> FALSE, previous_rates |-> NoRates]
        ELSE [raised |-> FALSE,
              latest_date |-> sorted_dates[1],
              latest_rates |-> GetItem(exchange_rates, sorted_dates[1]).rates,
              has_previous |-> Len(sorted_dates) > 1,
              previous_rates |->
                  IF Len(sorted_dates) > 1
                  THEN GetItem(exchange_rates, sorted_dates[2]).rates
                  ELSE NoRates]

RECURSIVE split(_, _)
\* str.split(sep): the parts between every occurrence of sep
split(str, sep) ==
    IF \A i \in 1..Len(str) : str[i] # sep
    THEN <<str>>
    ELSE LET i == CHOOSE j \in 1..Len(str) :
                      str[j] = sep /\ \A h \in 1..(j - 1) : str[h] # sep
         IN  <<SubSeq(str, 1, i - 1)>> \o split(SubSeq(str, i + 1, Len(str)), sep)

\* rec.get("buyingRate", "N/A")
get_buyingRate(rec) ==
    IF "buyingRate" \in DOMAIN rec THEN [some |-> TRUE, val |-> rec.buyingRate]
    ELSE NA

\* a comparison that also counts an unchanged rate as a rise
trend_geq(current_rate, previous_rate) ==
    IF previous_rate = NA THEN ""
    ELSE IF current_rate.val >= previous_rate.val THEN "UP"
    ELSE IF current_rate.val < previous_rate.val THEN "DOWN"
    ELSE ""

\* format_rates_message, lines 295-300: the arrow after the buying rate
trend(current_rate, previous_rate) ==
    IF previous_rate = NA THEN ""
    ELSE IF current_rate.val > previous_rate.val THEN "UP"
    ELSE IF current_rate.val < previous_rate.val THEN "DOWN"
    ELSE ""

\* the currency lists a user may have set: the default of the users table,
\* and lists set with /setcurrencies; "," is the separator
CurrencyLists ==
    { <<"USD", ",", "RUB", ",", "EUR">>,
      <<"EUR", ",", "USD">>,
      <<"THB">> }

\* format_rates_message: one block per requested currency that is in
\* latest_rates, in the order requested; comparing "N/A" with a number
\* raises
format_rates_message(latest_date, latest_rates, has_previous, previous_rates, currencies) ==
    LET InLatest(part) == Len(part) = 1 /\ part[1] \in DOMAIN latest_rates
        asked    == SelectSeq(split(currencies, ","), InLatest)
        Prev(c)  == IF has_previous /\ DOMAIN previous_rates # {}
                       /\ c \in DOMAIN previous_rates
                    THEN get_buyingRate(previous_rates[c])
                    ELSE NA
        Block(c) == [currency |-> c,
                     buying   |-> get_buyingRate(latest_rates[c]),
                     trend    |-> trend(get_buyingRate(latest_rates[c]), Prev(c)),
                     selling  |-> latest_rates[c].sellingRate]
    IN  [raised |-> \E i \in 1..Len(asked) :
                       /\ Prev(asked[i][1]) # NA
                       /\ get_buyingRate(latest_rates[asked[i][1]]) = NA,
         date   |-> latest_date,
         blocks |-> [i \in 1..Len(asked) |-> Block(asked[i][1])]]

\* round(num / den) of Python for num >= 0, den > 0: to the nearest, a
\* half to the even neighbour
Round(num, den) ==
    LET q == num \div den
        r == num % den
    IN  IF 2 * r < den THEN q
        ELSE IF 2 * r > den THEN q + 1
        ELSE IF q % 2 = 0 THEN q ELSE q + 1

\* datetime.strptime(date, "%Y-%m-%d"), for a key "YYYY-MM-DD"
strptime(s) ==
    << (s[1] - 48) * 1000 + (s[2] - 48) * 100 + (s[3] - 48) * 10 + (s[4] - 48),
       (s[6] - 48) * 10 + (s[7] - 48),
       (s[9] - 48) * 10 + (s[10] - 48) >>

\* (current_date - date_obj).days
DaysBetween(current_date, date_obj) == ymd2ord(current_date) - ymd2ord(date_obj)

\* the spacing, the number of records and the bar width of the history
StrideDays == 2

MaxPoints == 10

BarWidth == 20

\* a test that takes every date
StrideHitAny(days) == TRUE

\* (current_date - date_obj).days % 2 == 0
StrideHit(days) == days % StrideDays = 0

RECURSIVE SelectFrom(_, _, _, _)
\* the loop of lines 361-366 from index i on, selected being collected
SelectFrom(sorted_dates, i, current_date, selected) ==
    IF i > Len(sorted_dates) THEN selected
    ELSE IF StrideHit(DaysBetween(current_date, strptime(sorted_dates[i])))
         THEN IF Len(selected) + 1 >= MaxPoints
              THEN Append(selected, sorted_dates[i])
              ELSE SelectFrom(sorted_dates, i + 1, current_date,
                              Append(selected, sorted_dates[i]))
         ELSE SelectFrom(sorted_dates, i + 1, current_date, selected)

\* process_currency_rates, lines 357-366, over a non-empty series
selected_dates(exchange_rates) ==
    LET sorted_dates == sorted_reverse(Keys(exchange_rates))
    IN  SelectFrom(sorted_dates, 1, strptime(sorted_dates[1]), <<>>)

\* a point of the history: rate is None (some = FALSE) for missing data
Point(date, rate) == [date |-> date, rate |-> rate]

\* the rate of one selected date, lines 371-376
buying_rate_on(exchange_rates, date, currency) ==
    LET rates == GetItem(exchange_rates, date).rates
    IN  IF currency \in DOMAIN rates
        THEN [some |-> TRUE,
              val  |-> IF "buyingRate" \in DOMAIN rates[currency]
                       THEN rates[currency].buyingRate ELSE 0]
        ELSE NA

\* a loop that leaves out the dates without the currency
buying_rates_present_only(exchange_rates, selected, currency) ==
    LET Has(date) == buying_rate_on(exchange_rates, date, currency).some
        kept == SelectSeq(selected, Has)
    IN  [i \in 1..Len(kept) |->
            Point(kept[i], buying_rate_on(exchange_rates, kept[i], currency))]

\* process_currency_rates, lines 369-376
buying_rates(exchange_rates, selected, currency) ==
    [i \in 1..Len(selected) |->
        Point(selected[i], buying_rate_on(exchange_rates, selected[i], currency))]

\* min(valid_rates), max(valid_rates)
MinOf(S) == CHOOSE m \in S : \A x \in S : m <= x

MaxOf(S) == CHOOSE m \in S : \A x \in S : x <= m

\* line 401: int((normalized_rate / max_normalized) * 20), or 0; int()
\* drops the fraction. Rates are in hundredths and the quotient is exact.
bar_length(rate, min_rate, max_rate) ==
    LET normalized_rate == rate - min_rate
        max_normalized  == max_rate - min_rate
    IN  IF max_normalized # 0
        THEN (normalized_rate * BarWidth) \div max_normalized
        ELSE 0

\* process_currency_rates: the reply. An empty series raises at
\* sorted_dates[0], a selected snapshot without "rates" at line 371: both
\* give the error reply.
process_currency_rates(exchange_rates, currency) ==
    IF Keys(exchange_rates) = {}
    THEN [kind |-> "error", selected |-> <<>>, points |-> <<>>]
    ELSE LET selected == selected_dates(exchange_rates)
             rates    == buying_rates(exchange_rates, selected, currency)
             valid_rates == {rates[i].rate.val :
                                i \in {j \in 1..Len(rates) : rates[j].rate.some}}
         IN  IF \E i \in 1..Len(selected) :
                    "rates" \notin DOMAIN GetItem(exchange_rates, selected[i])
             THEN [kind |-> "error", selected |-> selected, points |-> <<>>]
             ELSE IF rates = <<>>
             THEN [kind |-> "no_data", selected |-> selected, points |-> <<>>]
             ELSE IF valid_rates = {}
             THEN [kind |-> "no_valid", selected |-> selected, points |-> <<>>]
             ELSE [kind |-> "history", selected |-> selected,
                   points |->
                     [i \in 1..Len(rates) |->
                        [date |-> rates[i].date,
                         rate |-> rates[i].rate,
                         bar  |-> IF rates[i].rate.some
                                  THEN bar_length(rates[i].rate.val,
                                                  MinOf(valid_rates),
                                                  MaxOf(valid_rates))
                                  ELSE 0]]]

(***************************************************************************)
(* Spec: update_or_add_record calls, load_data and the bot's reads of the  *)
(* file at overlapping times. One step per system call on the file: the    *)
(* open(path, 'w') of save_data truncates before the flock is taken, the   *)
(* text json.dump writes sits in the file object's buffer until the buffer *)
(* fills or the file is closed, and the readers take no lock.              *)
(***************************************************************************)
\* the series on disk before the overlapping calls: two daily snapshots
Doc0 ==
    UpdatedData(UpdatedData(<<>>, NewRecord(FirstDay, RatesA), FirstDay, FirstDay),
                NewRecord(FirstDay + 1, RatesB), FirstDay + 1, FirstDay + 1)

Init ==
    /\ clock \in {FirstDay + 1, FirstDay + 2}
    /\ file = dump(Doc0)
    /\ last = NoWrite
    /\ nwrites = 0
    /\ wr = [w \in Writers |-> IdleWriter]
    /\ lock = NoOne
    /\ rd = NoRead
    /\ bot = NoBot
    /\ InitPipelineIdle
    /\ InitDailyIdle

\* write(2) of text at offset off: a write past the end leaves a hole
WriteAt(f, off, text) ==
    LET padded == IF Len(f) < off
                  THEN f \o [i \in 1..(off - Len(f)) |-> <<"nul">>]
                  ELSE f
    IN  IF text = <<>> THEN f
        ELSE SubSeq(padded, 1, off) \o text
                \o SubSeq(padded, off + Len(text) + 1, Len(padded))

\* update_or_add_record, lines 65-76: load, set today's record, prune
Load(w, rates) ==
    /\ wr[w].pc = "idle"
    /\ wr' = [wr EXCEPT ![w].pc = "loaded",
                        ![w].rates = rates,
                        ![w].data = UpdatedData(load_data(file),
                                                NewRecord(clock, rates), clock, clock)]
    /\ UNCHANGED <<dailyVars, clock, file, storeVars, lock, rd, bot, runVars>>

\* save_data, line 55: open(self.file_path, 'w') truncates the file
Open(w) ==
    /\ wr[w].pc = "loaded"
    /\ file' = <<>>
    /\ wr' = [wr EXCEPT ![w].pc = "opened", ![w].off = 0]
    /\ UNCHANGED <<dailyVars, clock, storeVars, lock, rd, bot, runVars>>

\* a lock that is granted whoever holds it
flock_granted_always(holder) == TRUE

\* fcntl.flock(file, LOCK_EX) returns only when no other open file holds
\* a lock on the file
flock_granted(holder) == holder = NoOne

\* save_data, line 56: flock(LOCK_EX) waits while another holds the lock
AcquireLock(w) ==
    /\ wr[w].pc = "opened"
    /\ flock_granted(lock)
    /\ lock' = w
    /\ wr' = [wr EXCEPT ![w].pc = "locked"]
    /\ UNCHANGED <<dailyVars, clock, file, storeVars, rd, bot, runVars>>

\* save_data, line 58: json.dump; the first k tokens reach the disk when the
\* buffer fills, the rest stay in the buffer
Dump(w, k) ==
    LET text == dump(wr[w].data)
    IN  /\ wr[w].pc = "locked"
        /\ k \in 0..Len(text)
        /\ file' = WriteAt(file, wr[w].off, SubSeq(text, 1, k))
        /\ wr' = [wr EXCEPT ![w].pc = "dumped",
                            ![w].off = wr[w].off + k,
                            ![w].out = SubSeq(text, k + 1, Len(text))]
        /\ UNCHANGED <<dailyVars, clock, storeVars, lock, rd, bot, runVars>>

\* save_data, line 58: json.dump raises after n tokens went to the buffer
DumpRaises(w, n) ==
    LET text == dump(wr[w].data)
    IN  /\ wr[w].pc = "locked"
        /\ n \in 0..(Len(text) - 1)
        /\ wr' = [wr EXCEPT ![w].pc = "dumped",
                            ![w].raised = TRUE,
                            ![w].out = SubSeq(text, 1, n)]
        /\ UNCHANGED <<dailyVars, clock, file, storeVars, lock, rd, bot, runVars>>

\* an unlock that is skipped when json.dump raised
release_lock_unless_raised(w, holder) ==
    IF holder = w /\ ~wr[w].raised THEN NoOne ELSE holder

\* _release_lock: fcntl.flock(file, LOCK_UN) drops the lock of w's file
release_lock(w, holder) == IF holder = w THEN NoOne ELSE holder

\* save_data, lines 60-61: finally: self._release_lock(file), whether
\* json.dump returned or raised
ReleaseLock(w) ==
    /\ wr[w].pc = "dumped"
    /\ lock' = release_lock(w, lock)
    /\ wr' = [wr EXCEPT ![w].pc = "unlocked"]
    /\ UNCHANGED <<dailyVars, clock, file, storeVars, rd, bot, runVars>>

\* save_data, end of the with block: close() writes the buffer out
Close(w) ==
    /\ wr[w].pc = "unlocked"
    /\ file' = WriteAt(file, wr[w].off, wr[w].out)
    /\ wr' = [wr EXCEPT ![w].pc = IF wr[w].raised THEN "failed" ELSE "done",
                        ![w].off = wr[w].off + Len(wr[w].out),
                        ![w].out = <<>>]
    /\ UNCHANGED <<dailyVars, clock, storeVars, lock, rd, bot, runVars>>

\* the writing process is killed inside save_data: its buffer is lost and the
\* system closes its file, which drops its lock
Kill(w) ==
    /\ wr[w].pc \in {"opened", "locked", "dumped", "unlocked"}
    /\ lock' = IF lock = w THEN NoOne ELSE lock
    /\ wr' = [wr EXCEPT ![w].pc = "killed", ![w].out = <<>>]
    /\ UNCHANGED <<dailyVars, clock, file, storeVars, rd, bot, runVars>>

\* ExchangeRateStorage.load_data by a reader, at any time
ReadLoadData ==
    /\ rd' = [done |-> TRUE, malformed |-> ~WellFormed(file),
              series |-> load_data(file)]
    /\ UNCHANGED <<dailyVars, clock, file, storeVars, wr, lock, bot, runVars>>

\* ExchangeRateBot.load_exchange_rates: json.load, any exception is logged
\* and raised again
load_exchange_rates(text) ==
    IF WellFormed(text)
    THEN [raised |-> FALSE, data |-> loads(text)]
    ELSE [raised |-> TRUE, data |-> <<>>]

\* ExchangeRateBot.__init__, line 152: the first load; if it raises there is
\* no bot
BotStart ==
    LET r == load_exchange_rates(file)
    IN  /\ ~bot.started
        /\ bot' = IF r.raised
                  THEN [bot EXCEPT !.load = "raised"]
                  ELSE [bot EXCEPT !.started = TRUE, !.load = "returned",
                                   !.exchange_rates = r.data,
                                   !.loaded = r.data]
        /\ UNCHANGED <<dailyVars, clock, file, storeVars, writerVars, runVars>>

\* an assignment of whatever the load gave, nothing when it raised
reloaded_or_empty(cached, r) == r.data

\* reload_exchange_rates, line 267: self.exchange_rates is assigned only
\* when load_exchange_rates returned
reloaded(cached, r) == IF r.raised THEN cached ELSE r.data

\* ExchangeRateBot.reload_exchange_rates: a failed load is logged (the
\* except clause of line 269 does not raise) and the cached series stays
ReloadExchangeRates ==
    LET r == load_exchange_rates(file)
    IN  /\ bot.started
        /\ bot' = [bot EXCEPT
                      !.load = IF r.raised THEN "raised" ELSE "returned",
                      !.reload = IF r.raised THEN "logged" ELSE "returned",
                      !.exchange_rates = reloaded(bot.exchange_rates, r),
                      !.loaded = IF r.raised THEN bot.loaded ELSE r.data]
        /\ UNCHANGED <<dailyVars, clock, file, storeVars, writerVars, runVars>>

Next ==
    \/ \E w \in Writers, rates \in RateSets : Load(w, rates)
    \/ \E w \in Writers : Open(w)
    \/ \E w \in Writers : AcquireLock(w)
    \/ \E w \in Writers, k \in 0..(Len(Doc0) + 3) : Dump(w, k)
    \/ \E w \in Writers, n \in 0..(Len(Doc0) + 3) : DumpRaises(w, n)
    \/ \E w \in Writers : ReleaseLock(w)
    \/ \E w \in Writers : Close(w)
    \/ \E w \in Writers : Kill(w)
    \/ ReadLoadData
    \/ BotStart
    \/ ReloadExchangeRates

Spec == Init /\ [][Next]_vars

(***************************************************************************)
(* SpecBot: the bot over a series the store has written.                   *)
(***************************************************************************)
RatesOn(day) == IF day % 2 = 0 THEN RatesA ELSE RatesB

RECURSIVE WrittenOn(_)
\* the series left by one update_or_add_record on each of the days, in order
WrittenOn(days) ==
    IF days = {} THEN <<>>
    ELSE LET d == CHOOSE x \in days : \A y \in days : y <= x
         IN  UpdatedData(WrittenOn(days \ {d}), NewRecord(d, RatesOn(d)), d, d)

InitBot ==
    /\ clock = LastDay
    /\ \E days \in SUBSET (FirstDay..LastDay) :
          /\ Cardinality(days) <= MaxKeys
          /\ file = dump(WrittenOn(days))
    /\ last = NoWrite
    /\ nwrites = 0
    /\ wr = [w \in Writers |-> IdleWriter]
    /\ lock = NoOne
    /\ rd = NoRead
    /\ bot = NoBot
    /\ InitPipelineIdle
    /\ InitDailyIdle

\* a call of get_latest_rates (by send_rates or send_daily_rates)
GetLatestRates ==
    /\ bot.started
    /\ bot' = [bot EXCEPT !.latest =
                  [called |-> TRUE, of |-> bot.exchange_rates,
                   result |-> get_latest_rates(bot.exchange_rates)]]
    /\ UNCHANGED <<dailyVars, clock, file, storeVars, writerVars, runVars>>

\* the text of the generic reply
ErrorReply == "An error occurred. Please try again later."

\* a handler without the except clause: the exception leaves the handler
handle_exception_reraise(sent) == [replies |-> sent, escaped |-> TRUE]

\* except Exception of send_rates and process_currency_rates: the
\* exception is logged and the generic reply is sent after the replies
\* already sent
handle_exception(sent) == [replies |-> Append(sent, ErrorReply), escaped |-> FALSE]

\* the /rates command of a subscribed user whose currency list is
\* currencies: the message is sent, any exception gives the error reply
SendRates(currencies) ==
    LET r == get_latest_rates(bot.exchange_rates)
        m == format_rates_message(r.latest_date, r.latest_rates, r.has_previous,
                                  r.previous_rates, currencies)
        failed == r.raised \/ m.raised
        out == IF failed THEN handle_exception(<<>>)
               ELSE [replies |-> <<"rates">>, escaped |-> FALSE]
    IN  /\ bot.started
        /\ bot' = [bot EXCEPT !.reply =
                      [kind |-> IF failed THEN "error" ELSE "rates",
                       of |-> bot.exchange_rates,
                       currencies |-> currencies,
                       message |-> IF failed THEN <<>> ELSE m.blocks,
                       replies |-> out.replies,
                       escaped |-> out.escaped,
                       loaded |-> bot.loaded]]
        /\ UNCHANGED <<dailyVars, clock, file, storeVars, writerVars, runVars>>

NextBot ==
    \/ BotStart
    \/ ReloadExchangeRates
    \/ GetLatestRates

SpecBot == InitBot /\ [][NextBot]_vars

(***************************************************************************)
(* SpecRates: the /rates command over a series the store has written.      *)
(***************************************************************************)
NextRates ==
    \/ BotStart
    \/ \E currencies \in CurrencyLists : SendRates(currencies)

SpecRates == InitBot /\ [][NextRates]_vars

(***************************************************************************)
(* SpecHist: the /currencyrates command over a series document as the bot  *)
(* may find it in its directory, also one longer than the store keeps.     *)
(***************************************************************************)
HistBuying == <<3350, 3360, 3380, 3380, 3420, 3370, 3400>>

\* the rates of a day: USD varies, EUR is constant and missing every third
\* day
HistRates(day) ==
    [c \in (IF day % 3 = 0 THEN {"USD"} ELSE {"USD", "EUR"}) |->
        IF c = "USD"
        THEN RateRecord("United States", HistBuying[(day % 7) + 1],
                        HistBuying[(day % 7) + 1] + 50)
        ELSE RateRecord("Euro Zone", 3700, 3790)]

RECURSIVE HistSeries(_)
\* a document with one snapshot for each of the days, oldest first
HistSeries(days) ==
    IF days = {} THEN <<>>
    ELSE LET d == CHOOSE x \in days : \A y \in days : y <= x
         IN  Append(HistSeries(days \ {d}),
                    <<isoformat(Today(d)), NewRecord(d, HistRates(d))>>)

RECURSIVE SmallSubsets(_, _)
\* the subsets of S with at most k elements
SmallSubsets(S, k) ==
    IF k = 0 THEN {{}}
    ELSE LET P == SmallSubsets(S, k - 1)
         IN  P \cup {p \cup {x} : p \in P, x \in S}

\* the day sets of the documents: runs of consecutive days, and up to
\* MaxGapKeys days with gaps
HistDays ==
    {a..b : a, b \in FirstDay..LastDay}
        \cup SmallSubsets(FirstDay..LastDay, MaxGapKeys)

HistCurrencies == {"USD", "EUR", "RUB"}

InitHist ==
    /\ clock = LastDay
    /\ \E days \in HistDays : file = dump(HistSeries(days))
    /\ last = NoWrite
    /\ nwrites = 0
    /\ wr = [w \in Writers |-> IdleWriter]
    /\ lock = NoOne
    /\ rd = NoRead
    /\ bot = NoBot
    /\ InitPipelineIdle
    /\ InitDailyIdle

\* the /currencyrates command (or the reply to its prompt) for currency;
\* any exception gives the error reply
ProcessCurrencyRates(currency) ==
    LET r == process_currency_rates(bot.exchange_rates, currency)
        out == IF r.kind = "error" THEN handle_exception(<<>>)
               ELSE [replies |-> <<r.kind>>, escaped |-> FALSE]
    IN  /\ bot.started
        /\ bot' = [bot EXCEPT !.history =
                      [kind |-> r.kind, of |-> bot.exchange_rates,
                       currency |-> currency, selected |-> r.selected,
                       points |-> r.points,
                       replies |-> out.replies,
                       escaped |-> out.escaped,
                       loaded |-> bot.loaded]]
        /\ UNCHANGED <<dailyVars, clock, file, storeVars, writerVars, runVars>>

NextHist ==
    \/ BotStart
    \/ \E currency \in HistCurrencies : ProcessCurrencyRates(currency)

SpecHist == InitHist /\ [][NextHist]_vars

(***************************************************************************)
(* SpecStored: the history over series that only update_or_add_record has  *)
(* written.                                                                *)
(***************************************************************************)
\* the day sets on which the store has written before the bot starts
StoredDays ==
    {a..b : a, b \in FirstDay..LastDay}
        \cup SmallSubsets(FirstDay..LastDay, MaxGapKeys)

RECURSIVE WrittenFrom(_, _, _)
\* data after one update_or_add_record on each of the days, oldest first,
\* midnight passing between lines 68 and 75 of each when slip is 1
WrittenFrom(data, days, slip) ==
    IF days = {} THEN data
    ELSE LET d     == MinOf(days)
             saved == UpdatedData(data, NewRecord(d, RatesOn(d)), d, d + slip)
         IN  IF Len(saved) > 0 THEN WrittenFrom(saved, days \ {d}, slip)
                               ELSE <<>>

InitStored ==
    /\ \E days \in StoredDays, slip \in {0, 1} :
          /\ file = dump(WrittenFrom(<<>>, days, slip))
          /\ clock = IF days = {} THEN FirstDay ELSE MaxOf(days)
    /\ last = NoWrite
    /\ nwrites = 0
    /\ wr = [w \in Writers |-> IdleWriter]
    /\ lock = NoOne
    /\ rd = NoRead
    /\ bot = NoBot
    /\ InitPipelineIdle
    /\ InitDailyIdle

NextStored ==
    \/ BotStart
    \/ \E currency \in {"USD", "EUR"} : ProcessCurrencyRates(currency)

SpecStored == InitStored /\ [][NextStored]_vars

(***************************************************************************)
(* SpecQuery: the bot's two queries and its reload over documents as the   *)
(* bot may find them: written by the store, being written, or damaged.     *)
(***************************************************************************)
\* Doc0 with a latest snapshot that has no "rates"
DocNoRates ==
    <<Doc0[1],
      <<Doc0[2][1], [timestamp |-> Doc0[2][2].timestamp]>>>>

\* Doc0 with a latest snapshot whose USD record has no "buyingRate"
DocNoBuying ==
    <<Doc0[1],
      <<Doc0[2][1],
        [timestamp |-> Doc0[2][2].timestamp,
         rates |-> [c \in {"USD"} |->
                      [countryName |-> "United States", sellingRate |-> 3410]]]>>>>

\* Doc0 after the store's write of the next day
Doc1 ==
    UpdatedData(Doc0, NewRecord(FirstDay + 2, RatesA), FirstDay + 2, FirstDay + 2)

\* no file of that name: open raises FileNotFoundError
FileMissing == <<(<<"missing">>)>>

\* the documents the bot may start from
QueryDocs == {dump(<<>>), dump(Doc0), dump(DocNoRates), dump(DocNoBuying)}

\* what the bot may find at a later time: also the next day's document, a
\* file just truncated by save_data, a torn text, no file
FileStates ==
    QueryDocs \cup {dump(Doc1), <<>>, SubSeq(dump(Doc0), 1, 2), FileMissing}

InitQuery ==
    /\ clock = FirstDay + 2
    /\ file \in QueryDocs
    /\ last = NoWrite
    /\ nwrites = 0
    /\ wr = [w \in Writers |-> IdleWriter]
    /\ lock = NoOne
    /\ rd = NoRead
    /\ bot = NoBot
    /\ InitPipelineIdle
    /\ InitDailyIdle

\* another process writes, damages or removes the document
FileBecomes(text) ==
    /\ text # file
    /\ file' = text
    /\ UNCHANGED <<dailyVars, clock, storeVars, writerVars, bot, runVars>>

NextQuery ==
    \/ BotStart
    \/ ReloadExchangeRates
    \/ \E text \in FileStates : FileBecomes(text)
    \/ \E currencies \in CurrencyLists : SendRates(currencies)
    \/ \E currency \in HistCurrencies : ProcessCurrencyRates(currency)

SpecQuery == InitQuery /\ [][NextQuery]_vars

(***************************************************************************)
(* SpecDaily: the users table, the commands that change it and the hourly  *)
(* send_daily_rates job. Time is the minute of the day in UTC.             *)
(***************************************************************************)
\* run_repeating(interval=3600), in minutes
JobInterval == 60

DayMinutes == 1440

\* the hour send_daily_rates sends at
SendHour == 10

\* the minute of the day (UTC) the bot process may start at
StartTimes == {0, 30}

\* the names pytz knows, of those the users send
Timezones == {"Asia/Bangkok", "Asia/Kolkata"}

\* what the users send with /settimezone
TimezoneArgs == Timezones \cup {"Mars/Phobos"}

\* datetime.now(tz).utcoffset(), in minutes
utcoffset(tz) == IF tz = "Asia/Bangkok" THEN 420 ELSE 330

\* the names bound in the module namespace of bot.py: its imports, its
\* logger and its classes
ModuleNames ==
    {"json", "os", "sqlite3", "logging", "datetime", "load_dotenv", "Update",
     "Application", "CommandHandler", "ContextTypes", "MessageHandler",
     "filters", "AsyncIOScheduler", "pytz", "logger", "DatabaseHandler",
     "ExchangeRateBot"}

\* whether the lookup of a global name succeeds (else NameError)
NameBound(name) == name \in ModuleNames

\* the row INSERT OR IGNORE INTO users (chat_id) makes: the column
\* defaults, timezone_offset NULL
DefaultRow ==
    [subscribed |-> TRUE, timezone |-> "Asia/Bangkok",
     currencies |-> <<"USD", ",", "RUB", ",", "EUR">>, timezone_offset |-> NA]

InitDaily ==
    /\ clock = FirstDay + 2
    /\ file = dump(Doc0)
    /\ last = NoWrite
    /\ nwrites = 0
    /\ wr = [w \in Writers |-> IdleWriter]
    /\ lock = NoOne
    /\ rd = NoRead
    /\ bot = NoBot
    /\ InitPipelineIdle
    /\ users = [u \in ChatIds |-> NoRow]
    /\ \E t \in StartTimes : sched = [NoSched EXCEPT !.now = t]

\* ExchangeRateBot.run: start_scheduler; the first send_daily_rates is due
\* one interval later
StartScheduler ==
    /\ bot.started
    /\ ~sched.running
    /\ sched' = [sched EXCEPT !.running = TRUE]
    /\ UNCHANGED <<clock, file, storeVars, writerVars, bot, runVars, users>>

\* the /start command: add_user, INSERT OR IGNORE
Start(u) ==
    /\ bot.started
    /\ users' = IF users[u].subscribed THEN users
                ELSE [users EXCEPT ![u] = DefaultRow]
    /\ UNCHANGED <<clock, file, storeVars, writerVars, bot, runVars, sched>>

\* the /settimezone command: a name pytz knows is stored with its offset
\* in whole hours, int(round(offset)), in the row of the chat if there is
\* one
SetTimezone(u, tz) ==
    /\ bot.started
    /\ users' = IF tz \in Timezones /\ users[u].subscribed
                THEN [users EXCEPT ![u].timezone = tz,
                                   ![u].timezone_offset =
                                       [some |-> TRUE,
                                        val  |-> Round(utcoffset(tz), 60)]]
                ELSE users
    /\ UNCHANGED <<clock, file, storeVars, writerVars, bot, runVars, sched>>

\* the /unsubscribe command: delete_user
Unsubscribe(u) ==
    /\ bot.started
    /\ users' = [users EXCEPT ![u] = NoRow]
    /\ UNCHANGED <<clock, file, storeVars, writerVars, bot, runVars, sched>>

\* send_daily_rates, lines 424-425: now_utc + timedelta(hours=offset). The
\* name timedelta is looked up in the module namespace; a NULL offset is
\* None
user_local_time(now_utc, offset) ==
    IF ~NameBound("timedelta") THEN [raised |-> TRUE, time |-> 0]
    ELSE IF ~offset.some THEN [raised |-> TRUE, time |-> 0]
    ELSE [raised |-> FALSE,
          time |-> (now_utc + offset.val * 60) % DayMinutes]

\* send_daily_rates: the chats a message is sent to. An exception of
\* get_latest_rates is logged and ends the job; an exception for one user
\* is logged and the loop goes on
send_daily_rates(exchange_rates, rows, now_utc) ==
    LET r == get_latest_rates(exchange_rates)
    IN  IF r.raised THEN {}
        ELSE {u \in ChatIds :
                /\ rows[u].subscribed
                /\ LET t == user_local_time(now_utc, rows[u].timezone_offset)
                   IN  /\ ~t.raised
                       /\ t.time \div 60 = SendHour
                       /\ t.time % 60 = 0
                /\ ~format_rates_message(r.latest_date, r.latest_rates,
                                         r.has_previous, r.previous_rates,
                                         rows[u].currencies).raised}

\* the job queue runs send_daily_rates, one interval after the last time
SendDailyRates ==
    LET now_utc == (sched.now + JobInterval) % DayMinutes
    IN  /\ sched.running
        /\ sched' = [sched EXCEPT
                        !.now = now_utc,
                        !.sent = send_daily_rates(bot.exchange_rates, users,
                                                  now_utc)]
        /\ UNCHANGED <<clock, file, storeVars, writerVars, bot, runVars, users>>

NextDaily ==
    \/ BotStart
    \/ StartScheduler
    \/ \E u \in ChatIds : Start(u)
    \/ \E u \in ChatIds, tz \in TimezoneArgs : SetTimezone(u, tz)
    \/ \E u \in ChatIds : Unsubscribe(u)
    \/ SendDailyRates

\* the bot starts and runs its scheduler, and the job queue keeps running
\* the job
SpecDaily ==
    /\ InitDaily
    /\ [][NextDaily]_vars
    /\ WF_vars(BotStart)
    /\ WF_vars(StartScheduler)
    /\ WF_vars(SendDailyRates)

(***************************************************************************)
(* Claims on the bot (SpecBot).                                            *)
(***************************************************************************)
\* the key of the greatest date among keys
LatestKey(keys) == CHOOSE k \in keys : \A j \in keys : DayOf(j) <= DayOf(k)

\* C10: over a non-empty series get_latest_rates returns the entry of the
\* greatest date and, as previous, the entry of the greatest date below it,
\* whatever the gap; no previous entry when the series has one date.
C10_LatestAndPrevious ==
    (bot.latest.called /\ bot.latest.of # <<>>) =>
        LET series == bot.latest.of
            r      == bot.latest.result
            top    == LatestKey(Keys(series))
            below  == Keys(series) \ {top}
        IN  /\ ~r.raised
            /\ r.latest_date = top
            /\ r.latest_rates = GetItem(series, top).rates
            /\ r.has_previous = (below # {})
            /\ below # {} =>
                  r.previous_rates = GetItem(series, LatestKey(below)).rates

\* get_latest_rates has answered over a series whose two latest dates are
\* in different years, several days apart, with different rates
C10_Witness ==
    /\ bot.latest.called
    /\ Cardinality(Keys(bot.latest.of)) = 3
    /\ LET top  == LatestKey(Keys(bot.latest.of))
           prev == LatestKey(Keys(bot.latest.of) \ {top})
       IN  /\ fromisoformat(top)[1] = 2024
           /\ fromisoformat(prev)[1] = 2023
           /\ DayOf(top) - DayOf(prev) = 5
           /\ bot.latest.result.has_previous
           /\ bot.latest.result.previous_rates # bot.latest.result.latest_rates

\* the currency codes of a list, in the order asked
Asked(currencies) ==
    LET IsCode(x) == x # "," IN SelectSeq(currencies, IsCode)

\* the buying rate of currency c in the snapshot before the latest, if any
PreviousBuying(series, c) ==
    LET top   == LatestKey(Keys(series))
        below == Keys(series) \ {top}
    IN  IF below = {} THEN NA
        ELSE LET rates == GetItem(series, LatestKey(below)).rates
             IN  IF c \in DOMAIN rates
                 THEN [some |-> TRUE, val |-> rates[c].buyingRate]
                 ELSE NA

\* C11: over a non-empty series the /rates reply is a message with one
\* block per requested currency that is in the latest snapshot, and the
\* block's indicator is UP iff the latest buying rate is above the buying
\* rate of the snapshot before, DOWN iff it is below, and none otherwise:
\* also when there is no snapshot before or it lacks the currency. Absence
\* of history gives no error reply.
C11_TrendIndicator ==
    (bot.reply.kind # "none" /\ bot.reply.of # <<>>) =>
        LET series == bot.reply.of
            latest == GetItem(series, LatestKey(Keys(series))).rates
            InSnap(c) == c \in DOMAIN latest
            want   == SelectSeq(Asked(bot.reply.currencies), InSnap)
            msg    == bot.reply.message
        IN  /\ bot.reply.kind = "rates"
            /\ Len(msg) = Len(want)
            /\ \A i \in 1..Len(want) :
                  LET cur == latest[want[i]].buyingRate
                      prv == PreviousBuying(series, want[i])
                  IN  /\ msg[i].currency = want[i]
                      /\ msg[i].buying.val = cur
                      /\ (msg[i].trend = "UP") <=> (prv.some /\ cur > prv.val)
                      /\ (msg[i].trend = "DOWN") <=> (prv.some /\ cur < prv.val)
                      /\ (msg[i].trend = "")
                            <=> (~prv.some \/ cur = prv.val)

\* a reply went out in which one currency rose and the other, absent from
\* the snapshot before, has no indicator
C11_Witness ==
    /\ bot.reply.kind = "rates"
    /\ Len(bot.reply.message) = 2
    /\ \E i, j \in 1..2 :
          /\ bot.reply.message[i].trend = "UP"
          /\ bot.reply.message[j].trend = ""
          /\ ~PreviousBuying(bot.reply.of, bot.reply.message[j].currency).some
          /\ Cardinality(Keys(bot.reply.of)) >= 2

(***************************************************************************)
(* Claims on the history (SpecHist).                                       *)
(***************************************************************************)
\* the days of a series
DaysOf(series) == {DayOf(k) : k \in Keys(series)}

\* the days of a series at an even distance from its latest day
OnStride(series) ==
    LET top == DayOf(LatestKey(Keys(series)))
    IN  {d \in DaysOf(series) : (top - d) % 2 = 0}

\* C12: over a non-empty series the dates selected for the history are,
\* most recent first, the 10 latest dates (all, if fewer) whose distance in
\* days from the latest date is a multiple of 2; over N consecutive days
\* these are min(10, ceil(N/2)) dates, each 2 days before the one before.
C12_HistorySelection ==
    (bot.history.kind # "none" /\ bot.history.of # <<>>) =>
        LET series == bot.history.of
            sel    == bot.history.selected
            hits   == OnStride(series)
            N      == Cardinality(DaysOf(series))
            top    == DayOf(LatestKey(Keys(series)))
        IN  /\ bot.history.kind # "error"
            /\ Len(sel) = (IF Cardinality(hits) < 10 THEN Cardinality(hits) ELSE 10)
            /\ \A i \in 1..Len(sel) : DayOf(sel[i]) \in hits
            /\ \A i \in 1..(Len(sel) - 1) : DayOf(sel[i]) > DayOf(sel[i + 1])
            /\ \A d \in hits :
                  (\A i \in 1..Len(sel) : DayOf(sel[i]) # d)
                      => \A i \in 1..Len(sel) : d < DayOf(sel[i])
            /\ DaysOf(series) = (top - N + 1)..top =>
                  /\ Len(sel) = (IF (N + 1) \div 2 < 10 THEN (N + 1) \div 2 ELSE 10)
                  /\ \A i \in 1..(Len(sel) - 1) :
                        DayOf(sel[i]) - DayOf(sel[i + 1]) = 2

\* a history over 20 consecutive days, across the year's end: 10 dates
C12_Witness ==
    /\ bot.history.kind = "history"
    /\ Cardinality(DaysOf(bot.history.of)) = 20
    /\ DaysOf(bot.history.of) = FirstDay..(FirstDay + 19)
    /\ Len(bot.history.selected) = 10
    /\ DayOf(bot.history.selected[10]) = FirstDay + 1

\* the buying rates of the points that have one
ValidRates(points) ==
    {points[i].rate.val : i \in {j \in 1..Len(points) : points[j].rate.some}}

\* C13: with min and max the smallest and greatest buying rate of the
\* points that have one, each such point's bar length is
\* round(20 * (rate - min) / (max - min)), or 0 for every point when
\* max = min. This is the claim as stated; the code does not keep it.
C13_BarLengthRounded ==
    bot.history.kind = "history" =>
        LET points == bot.history.points
            lo == MinOf(ValidRates(points))
            hi == MaxOf(ValidRates(points))
        IN  \A i \in 1..Len(points) :
                points[i].rate.some =>
                    points[i].bar =
                        (IF hi = lo THEN 0
                         ELSE Round(20 * (points[i].rate.val - lo), hi - lo))

\* C19: a history reply has one point for every selected date, in the
\* order selected: with the stored buying rate when the snapshot of the
\* date has the currency, marked absent otherwise; and when the currency is
\* in the snapshot of one selected date at least, the reply is a history,
\* not an error.
C19_OnePointPerSelectedDate ==
    (bot.history.kind # "none" /\ bot.history.of # <<>>) =>
        LET series == bot.history.of
            sel    == bot.history.selected
            c      == bot.history.currency
            points == bot.history.points
            Has(k) == c \in DOMAIN GetItem(series, k).rates
        IN  /\ (\E i \in 1..Len(sel) : Has(sel[i])) <=> bot.history.kind = "history"
            /\ bot.history.kind = "history" =>
                  /\ Len(points) = Len(sel)
                  /\ \A i \in 1..Len(sel) :
                        /\ points[i].date = sel[i]
                        /\ points[i].rate.some = Has(sel[i])
                        /\ Has(sel[i]) =>
                              points[i].rate.val
                                  = GetItem(series, sel[i]).rates[c].buyingRate

\* a history went out with a point marked absent between two points with
\* a rate
C19_Witness ==
    /\ bot.history.kind = "history"
    /\ \E i, j, k \in 1..Len(bot.history.points) :
          /\ i < j /\ j < k
          /\ bot.history.points[i].rate.some
          /\ ~bot.history.points[j].rate.some
          /\ bot.history.points[k].rate.some

(***************************************************************************)
(* Claims on overlapping calls (Spec).                                     *)
(***************************************************************************)
OnlyWriter(w) == \A v \in Writers \ {w} : wr[v].pc = "idle"

Unbroken(w) == ~wr[w].raised /\ wr[w].pc # "killed"

\* the series a reader may see whole while w alone writes
WholeSeries(w) == {Doc0} \cup (IF wr[w].pc = "idle" THEN {} ELSE {wr[w].data})

\* C1: while one update_or_add_record runs (and is not broken off) over a
\* document that held snapshots with currencies, a read of the document
\* yields the whole series of before the write or the whole series of after
\* it, never an empty series or a latest snapshot without currencies.
\* This is the claim as stated; the code does not keep it.
C1_ReadSeesWholeSeries ==
    \A w \in Writers :
        (OnlyWriter(w) /\ Unbroken(w)) =>
            /\ rd.done => rd.series \in WholeSeries(w)
            /\ bot.started =>
                  /\ bot.exchange_rates \in WholeSeries(w)
                  /\ ~get_latest_rates(bot.exchange_rates).raised
                  /\ DOMAIN get_latest_rates(bot.exchange_rates).latest_rates # {}

\* update_or_add_record of w run alone on the series data
SerialCall(data, w) ==
    UpdatedData(data, NewRecord(clock, wr[w].rates), clock, clock)

\* C2: when two update_or_add_record calls overlap and both return, the
\* document is what the two calls leave when run one after the other in
\* some order, so every entry of an earlier date inside the window that was
\* there before is still there. This is the claim as stated; the code does
\* not keep it.
C2_WritesSerializable ==
    (\A w \in Writers : wr[w].pc = "done") =>
        /\ WellFormed(file)
        /\ \E v, w \in Writers :
              /\ v # w
              /\ loads(file) = SerialCall(SerialCall(Doc0, v), w)
        /\ \A e \in Entries(Doc0) :
              (e[1] # isoformat(Today(clock))
                 /\ DayOf(e[1]) >= clock - RetentionDays)
                  => e \in Entries(load_data(file))

\* C6: a save_data that raised or was cut off after open leaves a document
\* that reads as the whole series of before the write or of after it, never
\* as an empty series. This is the claim as stated; the code does not keep
\* it.
C6_BrokenWriteLeavesWholeSeries ==
    \A w \in Writers :
        (OnlyWriter(w) /\ wr[w].pc \in {"failed", "killed"}) =>
            /\ WellFormed(file)
            /\ load_data(file) \in {Doc0, wr[w].data}

\* C7: no read of a malformed document raises: load_data and the bot's
\* load_exchange_rates both return an empty series. This is the claim as
\* stated; load_exchange_rates does not keep it.
C7_MalformedReadsAsEmpty ==
    /\ (rd.done /\ rd.malformed) => rd.series = <<>>
    /\ bot.load # "raised"

(***************************************************************************)
(* SuperrichAPI: the pipeline.                                             *)
(***************************************************************************)
\* The script text, as what the pattern of extract_basic_auth finds in it:
\* auth is the text between the quotes after Basic, or None. That text is a
\* base64 payload: what it decodes to, and whether b64decode and
\* decode('utf-8') accept it.
Payload(ok, text) == [decodable |-> ok, decoded |-> text]

Payloads ==
    { Payload(TRUE, <<"u", ":", "p">>),
      Payload(TRUE, <<"u", "p">>),
      Payload(TRUE, <<"u", ":", "p", ":", "q">>),
      Payload(TRUE, <<":", "p">>),
      Payload(FALSE, <<>>) }

JsTexts == {[auth |-> NoneDict]} \cup {[auth |-> Some(p)] : p \in Payloads}

JsStatuses == {200, 404}

\* the bodies the rate API may answer with
Tier(buy, sell) == [cBuying |-> buy, cSelling |-> sell]

Item(unit, name, tiers) == [cUnit |-> unit, countryName |-> name, rate |-> tiers]

BodyA ==
    [data |-> [exchangeRate |->
        << Item("USD", "United States", <<Tier(3350, 3400), Tier(3300, 3450)>>),
           Item("EUR", "Euro Zone", <<Tier(3700, 3790)>>) >>]]

BodyB ==
    [data |-> [exchangeRate |->
        << Item("USD", "United States", <<Tier(3360, 3410)>>) >>]]

BodyEmptyList == [data |-> [exchangeRate |-> <<>>]]

BodyNoTier ==
    [data |-> [exchangeRate |->
        << Item("USD", "United States", <<Tier(3350, 3400)>>),
           Item("EUR", "Euro Zone", <<>>) >>]]

BodyNoName ==
    [data |-> [exchangeRate |->
        << [cUnit |-> "USD", rate |-> <<Tier(3350, 3400)>>] >>]]

BodyNoData == [message |-> "maintenance"]

ErrorBody == [message |-> "error"]

ApiResponses ==
    {[status |-> 200, body |-> b] :
        b \in {BodyA, BodyB, BodyEmptyList, BodyNoTier, BodyNoName, BodyNoData,
               EmptyDict}}
    \cup {[status |-> st, body |-> ErrorBody] : st \in {401, 500}}

\* fetch_js_file: a status other than 200 raises
fetch_js_file(status, text) ==
    IF status # 200
    THEN [raised |-> TRUE, text |-> NoneDict]
    ELSE [raised |-> FALSE, text |-> Some(text)]

\* extract_basic_auth that hands on whatever the search gave
extract_basic_auth_unchecked(js_content) ==
    [raised |-> FALSE,
     group |-> IF js_content.auth.some THEN js_content.auth
                                       ELSE Some(Payload(TRUE, <<>>))]

\* extract_basic_auth: re.search; no match raises, else match.group(1)
extract_basic_auth(js_content) ==
    IF ~js_content.auth.some
    THEN [raised |-> TRUE, group |-> NoneDict]
    ELSE [raised |-> FALSE, group |-> js_content.auth]

\* a decode_basic_auth that assigns the names one after the other, None
\* where there is no part for one
decode_basic_auth_one_by_one(a, encoded_auth) ==
    IF ~encoded_auth.decodable
    THEN [raised |-> TRUE,
          api |-> [a EXCEPT !.username = NoneStr, !.password = NoneStr]]
    ELSE LET parts == split(encoded_auth.decoded, ":")
         IN  IF Len(parts) # 2
             THEN [raised |-> TRUE,
                   api |-> [a EXCEPT !.username = Some(parts[1]),
                                     !.password = NoneStr]]
             ELSE [raised |-> FALSE,
                   api |-> [a EXCEPT !.username = Some(parts[1]),
                                     !.password = Some(parts[2])]]

\* decode_basic_auth: b64decode(...).decode('utf-8') may raise; so does the
\* assignment of split(':') to the two names unless there are two parts
decode_basic_auth(a, encoded_auth) ==
    IF ~encoded_auth.decodable
    THEN [raised |-> TRUE, api |-> a]
    ELSE LET parts == split(encoded_auth.decoded, ":")
         IN  IF Len(parts) # 2
             THEN [raised |-> TRUE, api |-> a]
             ELSE [raised |-> FALSE,
                   api |-> [a EXCEPT !.username = Some(parts[1]),
                                     !.password = Some(parts[2])]]

\* make_api_request that does not raise on a status other than 200
make_api_request_any_status(a, response) ==
    IF Falsy(a.username) \/ Falsy(a.password)
    THEN [raised |-> TRUE, requested |-> FALSE, api |-> a]
    ELSE [raised |-> FALSE, requested |-> TRUE,
          api |-> IF response.status = 200
                  THEN [a EXCEPT !.data = Some(response.body)] ELSE a]

\* make_api_request: raises without credentials; a 200 sets self.data to
\* the body, any other status raises
make_api_request(a, response) ==
    IF Falsy(a.username) \/ Falsy(a.password)
    THEN [raised |-> TRUE, requested |-> FALSE, api |-> a]
    ELSE IF response.status = 200
         THEN [raised |-> FALSE, requested |-> TRUE,
               api |-> [a EXCEPT !.data = Some(response.body)]]
         ELSE [raised |-> TRUE, requested |-> TRUE, api |-> a]

\* whether the loop body of extract_all_rates finds its keys in item
ItemComplete(item) ==
    /\ {"cUnit", "countryName", "rate"} \subseteq DOMAIN item
    /\ Len(item.rate) >= 1
    /\ {"cBuying", "cSelling"} \subseteq DOMAIN item.rate[1]

\* a loop that takes the last element of each rate list
RatesOfItemsLastTier(items) ==
    [c \in {items[i].cUnit : i \in 1..Len(items)} |->
        LET item == items[CHOOSE i \in 1..Len(items) :
                            /\ items[i].cUnit = c
                            /\ \A j \in (i + 1)..Len(items) : items[j].cUnit # c]
        IN  RateRecord(item.countryName, item.rate[Len(item.rate)].cBuying,
                       item.rate[Len(item.rate)].cSelling)]

RECURSIVE RatesOfItems(_)
\* the rates dict the loop of extract_all_rates builds, item by item
RatesOfItems(items) ==
    IF items = <<>> THEN NoRates
    ELSE LET item   == items[Len(items)]
             before == RatesOfItems(SubSeq(items, 1, Len(items) - 1))
         IN  [c \in DOMAIN before \cup {item.cUnit} |->
                 IF c = item.cUnit
                 THEN RateRecord(item.countryName, item.rate[1].cBuying,
                                 item.rate[1].cSelling)
                 ELSE before[c]]

\* extract_all_rates: raises when self.data is false, when a key is not
\* there or a rate list is empty
extract_all_rates(data) ==
    IF Falsy(data) THEN [raised |-> TRUE, rates |-> NoRates]
    ELSE IF "data" \notin DOMAIN data.val THEN [raised |-> TRUE, rates |-> NoRates]
    ELSE IF "exchangeRate" \notin DOMAIN data.val.data
         THEN [raised |-> TRUE, rates |-> NoRates]
    ELSE LET items == data.val.data.exchangeRate
         IN  IF \E i \in 1..Len(items) : ~ItemComplete(items[i])
             THEN [raised |-> TRUE, rates |-> NoRates]
             ELSE [raised |-> FALSE, rates |-> RatesOfItems(items)]

(***************************************************************************)
(* SpecRun: run() calls on one SuperrichAPI instance, one step per method; *)
(* an exception in a step ends the run in the except clause of run.        *)
(***************************************************************************)
RatesOfBodyA == extract_all_rates(Some(BodyA)).rates

\* the instance as a run that got BodyA left it
UsedApi ==
    [username |-> Some(<<"u">>), password |-> Some(<<"p">>), data |-> Some(BodyA)]

\* the series as that run left it on the day the clock starts at, next to a
\* snapshot of 14 days before
RunDoc ==
    UpdatedData(WrittenOn({LastDay - 15}), NewRecord(LastDay - 1, RatesOfBodyA),
                LastDay - 1, LastDay - 1)

InitRun ==
    /\ clock = LastDay - 1
    /\ \/ api = NewApi /\ file \in {dump(<<>>), dump(RunDoc)}
       \/ api = UsedApi /\ file = dump(RunDoc)
    /\ run = NoRun
    /\ prevRun = NoRun
    /\ last = NoWrite
    /\ nwrites = 0
    /\ wr = [w \in Writers |-> IdleWriter]
    /\ lock = NoOne
    /\ rd = NoRead
    /\ bot = NoBot
    /\ InitDailyIdle

\* the except clause of run: logger.exception("Script failed with error"),
\* run returns None
Failed(step) ==
    [run EXCEPT !.pc = "failed", !.failed_at = step, !.reported = "failed"]

\* run() is called
StartRun ==
    /\ run.pc \in {"idle", "done", "failed"}
    /\ run.n < MaxRuns
    /\ prevRun' = run
    /\ run' = [NoRun EXCEPT !.n = run.n + 1, !.pc = "start", !.file0 = file,
                             !.api0 = api]
    /\ UNCHANGED <<dailyVars, clock, file, storeVars, writerVars, bot, api>>

\* step 1: fetch_js_file
FetchJsFile(status, text) ==
    LET r == fetch_js_file(status, text)
    IN  /\ run.pc = "start"
        /\ run' = IF r.raised
                  THEN [Failed("fetch_js_file") EXCEPT !.js_status = status]
                  ELSE [run EXCEPT !.pc = "fetched", !.js_status = status,
                                   !.js_content = r.text]
        /\ UNCHANGED <<dailyVars, clock, file, storeVars, writerVars, bot, api, prevRun>>

\* step 2: extract_basic_auth
ExtractBasicAuth ==
    LET r == extract_basic_auth(run.js_content.val)
    IN  /\ run.pc = "fetched"
        /\ run' = IF r.raised
                  THEN Failed("extract_basic_auth")
                  ELSE [run EXCEPT !.pc = "extracted", !.encoded_auth = r.group]
        /\ UNCHANGED <<dailyVars, clock, file, storeVars, writerVars, bot, api, prevRun>>

\* step 3: decode_basic_auth
DecodeBasicAuth ==
    LET r == decode_basic_auth(api, run.encoded_auth.val)
    IN  /\ run.pc = "extracted"
        /\ api' = r.api
        /\ run' = IF r.raised
                  THEN Failed("decode_basic_auth")
                  ELSE [run EXCEPT !.pc = "decoded", !.decoded = TRUE]
        /\ UNCHANGED <<dailyVars, clock, file, storeVars, writerVars, bot, prevRun>>

\* step 4: make_api_request
MakeApiRequest(response) ==
    LET r    == make_api_request(api, response)
        sent == IF r.requested
                THEN [run EXCEPT !.api_requests = run.api_requests + 1,
                                 !.api_status = response.status,
                                 !.body = Some(response.body)]
                ELSE run
    IN  /\ run.pc = "decoded"
        /\ api' = r.api
        /\ run' = IF r.raised
                  THEN [sent EXCEPT !.pc = "failed", !.failed_at = "make_api_request",
                                    !.reported = "failed"]
                  ELSE [sent EXCEPT !.pc = "requested"]
        /\ UNCHANGED <<dailyVars, clock, file, storeVars, writerVars, bot, prevRun>>

\* step 5: extract_all_rates
ExtractAllRates ==
    LET r == extract_all_rates(api.data)
    IN  /\ run.pc = "requested"
        /\ run' = IF r.raised
                  THEN Failed("extract_all_rates")
                  ELSE [run EXCEPT !.pc = "rates", !.rates = Some(r.rates)]
        /\ UNCHANGED <<dailyVars, clock, file, storeVars, writerVars, bot, api, prevRun>>

\* what may go wrong in save_data: flock raises, json.dump raises, the
\* flush at close raises
SaveFaults == {"lock", "dump", "flush"}

\* a save_data that returns whatever went wrong
save_data_swallowing(data, fault, n) ==
    IF fault = "none" THEN [raised |-> FALSE, file |-> dump(data)]
    ELSE IF fault = "lock" THEN [raised |-> FALSE, file |-> <<>>]
    ELSE [raised |-> FALSE, file |-> SubSeq(dump(data), 1, n)]

\* save_data alone on the file: what is on disk afterwards and whether the
\* call raised. open(path, 'w') has emptied the file; a flock that raises
\* leaves it so; a json.dump that raises after n tokens, or a flush that
\* fails after n tokens, leaves those n tokens; the exception goes to the
\* caller (there is no except clause)
save_data(data, fault, n) ==
    IF fault = "none" THEN [raised |-> FALSE, file |-> dump(data)]
    ELSE IF fault = "lock" THEN [raised |-> TRUE, file |-> <<>>]
    ELSE [raised |-> TRUE, file |-> SubSeq(dump(data), 1, n)]

\* step 6: store_results: update_or_add_record of the new record, alone on
\* the file; then "Script completed successfully." is logged
StoreResults(clk2) ==
    /\ run.pc = "rates"
    /\ clk2 <= LastDay
    /\ file' = save_data(UpdatedData(load_data(file),
                                     NewRecord(clock, run.rates.val), clock, clk2),
                         "none", 0).file
    /\ clock' = clk2
    /\ run' = [run EXCEPT !.pc = "done",
                          !.store_writes = run.store_writes + 1,
                          !.today = isoformat(Today(clock)),
                          !.reported = "completed"]
    /\ UNCHANGED <<dailyVars, storeVars, writerVars, bot, api, prevRun>>

\* step 6 with a save_data in which fault happens: the exception passes
\* through update_or_add_record and store_results to the except clause of
\* run
StoreResultsFault(fault, n) ==
    LET data == UpdatedData(load_data(file), NewRecord(clock, run.rates.val),
                            clock, clock)
        r    == save_data(data, fault, n)
    IN  /\ run.pc = "rates"
        /\ n \in 0..(Len(dump(data)) - 1)
        /\ file' = r.file
        /\ run' = IF r.raised
                  THEN [Failed("store_results") EXCEPT !.store_fault = fault]
                  ELSE [run EXCEPT !.pc = "done",
                                   !.store_writes = run.store_writes + 1,
                                   !.today = isoformat(Today(clock)),
                                   !.store_fault = fault,
                                   !.reported = "completed"]
        /\ UNCHANGED <<dailyVars, clock, storeVars, writerVars, bot, api, prevRun>>

NextRun ==
    \/ Tick
    \/ StartRun
    \/ \E status \in JsStatuses, text \in JsTexts : FetchJsFile(status, text)
    \/ ExtractBasicAuth
    \/ DecodeBasicAuth
    \/ \E response \in ApiResponses : MakeApiRequest(response)
    \/ ExtractAllRates
    \/ \E clk2 \in {clock, clock + 1} : StoreResults(clk2)
    \/ \E fault \in SaveFaults, n \in 0..(Len(RunDoc) + 2) :
          StoreResultsFault(fault, n)

SpecRun == InitRun /\ [][NextRun]_vars

(***************************************************************************)
(* Claims on the pipeline (SpecRun).                                       *)
(***************************************************************************)
\* the script was fetched and holds no Basic-auth literal
PatternAbsent == run.js_content.some /\ ~run.js_content.val.auth.some

\* the payload found decodes to one user name and one password
PayloadDecodes(p) ==
    /\ p.decodable
    /\ Cardinality({i \in 1..Len(p.decoded) : p.decoded[i] = ":"}) = 1

\* the body has every field the extraction reads
BodyComplete(b) ==
    /\ "data" \in DOMAIN b
    /\ "exchangeRate" \in DOMAIN b.data
    /\ \A i \in 1..Len(b.data.exchangeRate) : ItemComplete(b.data.exchangeRate[i])

\* every step before the store step got what it needs
InputsGood ==
    /\ run.js_status = 200
    /\ run.js_content.some /\ run.js_content.val.auth.some
    /\ PayloadDecodes(run.js_content.val.auth.val)
    /\ run.api_status = 200
    /\ run.body.some /\ BodyComplete(run.body.val)

\* C5: a run in which a step before the store step fails (script fetch not
\* 200, no Basic-auth literal, payload not decodable, API not 200, fields
\* missing) aborts and leaves the persisted text as it was when the run
\* started: the text changes, or the run completes, only when every step
\* got what it needs.
C5_FailedRunWritesNothing ==
    run.n > 0 =>
        /\ (run.pc = "failed" /\ run.failed_at # "store_results")
              => (file = run.file0 /\ run.store_writes = 0)
        /\ (file # run.file0 \/ run.store_writes > 0 \/ run.pc = "done")
              => InputsGood
        /\ ~InputsGood => run.pc \in {"start", "fetched", "extracted", "decoded",
                                       "requested", "failed"}

\* a run was aborted in extract_all_rates, on a body whose second item has
\* no rate, after the first item was read; the series is not empty
C5_Witness ==
    /\ run.pc = "failed" /\ run.failed_at = "extract_all_rates"
    /\ run.body = Some(BodyNoTier)
    /\ run.file0 = dump(RunDoc)
    /\ file = run.file0

\* C8: in a run whose script text holds no Basic-auth literal,
\* extract_basic_auth fails, and no API request and no store write are made
\* in that run.
C8_NoPatternNoRequest ==
    (run.n > 0 /\ PatternAbsent) =>
        /\ run.api_requests = 0
        /\ run.store_writes = 0
        /\ file = run.file0
        /\ run.pc # "fetched" =>
              (run.pc = "failed" /\ run.failed_at = "extract_basic_auth")

\* such a run has ended, on an instance that holds the credentials and the
\* data of an earlier run
C8_Witness ==
    /\ run.n > 0 /\ PatternAbsent
    /\ run.pc = "failed" /\ run.failed_at = "extract_basic_auth"
    /\ api = UsedApi

\* the run before got 401 from the API, and this run, with credentials
\* extracted again, got 200 and completed
RetriedAfter401 ==
    /\ prevRun.n > 0 /\ prevRun.api_status = 401
    /\ run.pc = "done" /\ run.decoded /\ run.api_status = 200

FirstColon(text) ==
    CHOOSE i \in 1..Len(text) : text[i] = ":" /\ \A j \in 1..(i - 1) : text[j] # ":"

\* C14: for every payload that decodes to a text with one or more ":",
\* decode_basic_auth succeeds, the user name is the text before the first
\* ":" and the password is all of the text after it. This is the claim as
\* stated; the code does not keep it.
C14_SplitOnFirstColon ==
    (run.n > 0 /\ run.encoded_auth.some /\ run.encoded_auth.val.decodable
       /\ \E i \in 1..Len(run.encoded_auth.val.decoded) :
              run.encoded_auth.val.decoded[i] = ":") =>
        LET text == run.encoded_auth.val.decoded
            i    == FirstColon(text)
        IN  /\ ~(run.pc = "failed" /\ run.failed_at = "decode_basic_auth")
            /\ run.decoded =>
                  /\ api.username = Some(SubSeq(text, 1, i - 1))
                  /\ api.password = Some(SubSeq(text, i + 1, Len(text)))

\* the save_data calls between lock acquisition and lock release
Holders == {w \in Writers : wr[w].pc \in {"locked", "dumped"}}

\* C15: at no time are two overlapping save_data calls both between lock
\* acquisition and lock release, and the lock is held by the one call that
\* is.
C15_OneLockHolder ==
    /\ Cardinality(Holders) <= 1
    /\ \A w \in Holders : lock = w

\* one call holds the lock while another, its file open, waits for it
C15_Witness ==
    \E v, w \in Writers :
        /\ wr[v].pc = "dumped" /\ lock = v
        /\ wr[w].pc = "opened"

\* C16: a save_data call that acquired the lock and has returned or raised
\* (json.dump failing included) no longer holds it, and when no other call
\* is between acquisition and release the lock is free for a later writer.
C16_LockReleasedOnExit ==
    \A w \in Writers :
        wr[w].pc \in {"unlocked", "done", "failed"} =>
            /\ lock # w
            /\ Holders = {} => flock_granted(lock)

\* a call whose json.dump raised has left save_data, and the other writer
\* has taken the lock after it
C16_Witness ==
    \E v, w \in Writers :
        /\ wr[v].pc = "failed" /\ wr[v].raised
        /\ wr[w].pc = "locked" /\ lock = w

PerCurrency(items) ==
    \A i, j \in 1..Len(items) : items[i].cUnit = items[j].cUnit => i = j

\* C18: for every currency entry of the API response of a run, the
\* RateRecord extracted, and the one stored by the run, has the cBuying and
\* cSelling of the first element of the entry's rate list, whatever
\* follows in the list, and the entry's countryName.
C18_FirstTierStored ==
    (run.rates.some /\ PerCurrency(run.body.val.data.exchangeRate)) =>
        LET items == run.body.val.data.exchangeRate
        IN  /\ DOMAIN run.rates.val = {items[i].cUnit : i \in 1..Len(items)}
            /\ \A i \in 1..Len(items) :
                  LET rec == run.rates.val[items[i].cUnit]
                  IN  /\ rec.buyingRate = items[i].rate[1].cBuying
                      /\ rec.sellingRate = items[i].rate[1].cSelling
                      /\ rec.countryName = items[i].countryName
            /\ run.pc = "done" =>
                  GetItem(load_data(file), run.today).rates = run.rates.val

\* a run has stored the rates of a body whose first entry has a second
\* tier with other rates
C18_Witness ==
    /\ run.pc = "done"
    /\ run.body = Some(BodyA)
    /\ Len(BodyA.data.exchangeRate[1].rate) = 2
    /\ BodyA.data.exchangeRate[1].rate[2].cBuying
          # BodyA.data.exchangeRate[1].rate[1].cBuying
    /\ GetItem(load_data(file), run.today).rates["USD"].buyingRate
          = BodyA.data.exchangeRate[1].rate[1].cBuying

\* the minute of the day it is for the user of chat u, by the time zone
\* of the user's row
LocalTime(u) == (sched.now + utcoffset(users[u].timezone)) % DayMinutes

\* C20: a chat that stays subscribed while the bot runs its scheduler over
\* a non-empty series is sent the daily rates again and again, at 10:00 of
\* its local time: whatever the time the bot started at and whether or not
\* /settimezone was ever used. This is the claim as stated; the code does
\* not keep it.
C20_DailyRatesDelivered ==
    \A u \in ChatIds :
        <>[](users[u].subscribed /\ sched.running /\ bot.exchange_rates # <<>>)
            => []<>(u \in sched.sent /\ LocalTime(u) = 10 * 60)

\* the snapshot of the latest date of a non-empty series
LatestSnapshot(series) == GetItem(series, LatestKey(Keys(series)))

\* C21: a /rates or /currencyrates query that fails is answered with the
\* generic reply, once, and no exception leaves the handler; a query over
\* an empty series or over a latest snapshot without its rates is such a
\* failure. A query that does not fail gets one reply, which is not the
\* generic one.
C21_QueryFailureGivesOneErrorReply ==
    /\ bot.reply.kind # "none" =>
          /\ ~bot.reply.escaped
          /\ Len(bot.reply.replies) = 1
          /\ (bot.reply.kind = "error") <=> (bot.reply.replies = <<ErrorReply>>)
          /\ (bot.reply.of = <<>>
                \/ "rates" \notin DOMAIN LatestSnapshot(bot.reply.of))
                => bot.reply.replies = <<ErrorReply>>
    /\ bot.history.kind # "none" =>
          /\ ~bot.history.escaped
          /\ Len(bot.history.replies) = 1
          /\ (bot.history.kind = "error") <=> (bot.history.replies = <<ErrorReply>>)
          /\ (bot.history.of = <<>>
                \/ "rates" \notin DOMAIN LatestSnapshot(bot.history.of))
                => bot.history.replies = <<ErrorReply>>

\* a /rates query failed on a record without its buying rate and a
\* /currencyrates query failed on an empty series: each got the generic
\* reply
C21_Witness ==
    /\ bot.reply.kind = "error" /\ bot.reply.of = DocNoBuying
    /\ bot.reply.replies = <<ErrorReply>>
    /\ bot.history.kind = "error" /\ bot.history.of = <<>>
    /\ bot.history.replies = <<ErrorReply>>

\* C24: when reload_exchange_rates fails (no file, a truncated or a torn
\* text), the cached series stays what the last load that returned gave,
\* the failure does not leave the job, and every /rates and /currencyrates
\* query is answered from the series of the last load that returned.
C24_FailedReloadKeepsCache ==
    /\ bot.started =>
          /\ bot.exchange_rates = bot.loaded
          /\ bot.reload \in {"none", "returned", "logged"}
          /\ (bot.reload = "logged") <=> (bot.load = "raised")
    /\ bot.reply.kind # "none" => bot.reply.of = bot.reply.loaded
    /\ bot.history.kind # "none" => bot.history.of = bot.history.loaded

\* a reload has failed on a truncated file, and both queries were answered
\* afterwards from the series loaded before, the document having changed
\* since
C24_Witness ==
    /\ bot.reload = "logged" /\ file = <<>>
    /\ bot.exchange_rates = Doc1
    /\ bot.reply.kind = "rates" /\ bot.reply.of = Doc1
    /\ bot.history.kind = "history" /\ bot.history.of = Doc1

\* the payload of the run is not base64 of a utf-8 text, or decodes to a
\* text that split(':') does not cut in two
Malformed(p) == ~p.decodable \/ Len(split(p.decoded, ":")) # 2

\* C22: when decode_basic_auth fails on a malformed payload (no ":", or
\* not valid base64), username and password of the instance are what they
\* were before the call, and the run issues no API request.
C22_FailedDecodeLeavesCredentials ==
    (run.encoded_auth.some /\ Malformed(run.encoded_auth.val)
        /\ run.pc # "extracted") =>
        /\ run.pc = "failed" /\ run.failed_at = "decode_basic_auth"
        /\ api.username = run.api0.username
        /\ api.password = run.api0.password
        /\ api = run.api0
        /\ run.api_requests = 0
        /\ ~run.decoded

\* decode_basic_auth has failed on a payload without ":" on an instance that
\* holds the credentials of an earlier run
C22_Witness ==
    /\ run.pc = "failed" /\ run.failed_at = "decode_basic_auth"
    /\ run.encoded_auth = Some(Payload(TRUE, <<"u", "p">>))
    /\ run.api0.username = Some(<<"u">>) /\ run.api0.password = Some(<<"p">>)
    /\ api.username = Some(<<"u">>) /\ api.password = Some(<<"p">>)

\* the rates of the snapshot the text holds for the date of the run
StoredRates == GetItem(load_data(file), run.today).rates

\* C23: on an instance used before, a request is issued only with the
\* credentials decoded in the same run, rates are extracted only from the
\* 200 response of the same run, and a snapshot is written only from those
\* rates; a run in which a step before the store step failed issues no
\* request after the failure and writes nothing.
C23_RunUsesOnlyItsOwnResults ==
    run.n > 0 =>
        /\ run.api_requests > 0 =>
              /\ run.decoded /\ run.api_requests = 1
              /\ ~Malformed(run.encoded_auth.val)
              /\ api.username = Some(split(run.encoded_auth.val.decoded, ":")[1])
              /\ api.password = Some(split(run.encoded_auth.val.decoded, ":")[2])
        /\ run.rates.some =>
              /\ run.api_status = 200
              /\ api.data = run.body
              /\ run.rates.val = extract_all_rates(run.body).rates
        /\ run.store_writes > 0 =>
              /\ run.rates.some
              /\ StoredRates = extract_all_rates(run.body).rates
        /\ (run.pc = "failed" /\ run.failed_at # "store_results") =>
              /\ run.store_writes = 0 /\ file = run.file0
              /\ run.failed_at \in {"fetch_js_file", "extract_basic_auth",
                                     "decode_basic_auth"} => run.api_requests = 0
              /\ run.failed_at = "make_api_request" => api.data = run.api0.data

\* a run on an instance that holds the credentials and the data of an
\* earlier run was aborted by a 500 of the API; the data of the earlier run
\* is still on the instance and nothing was written
C23_Witness ==
    /\ run.pc = "failed" /\ run.failed_at = "make_api_request"
    /\ run.api_status = 500
    /\ run.api0.data = Some(BodyA) /\ api.data = Some(BodyA)
    /\ run.store_writes = 0 /\ file = run.file0

\* C26: every snapshot a run writes holds one currency or more; a 200
\* response whose exchangeRate list is empty makes no run write an empty
\* rates mapping. This is the claim as stated; the code does not keep it.
C26_SnapshotHasACurrency ==
    run.store_writes > 0 => DOMAIN StoredRates # {}

\* C25: over a series that only store writes have produced, whose keys lie
\* within the 14 days before its latest key D and D itself, a history query
\* selects at most 8 dates and returns at most 8 points.
C25_StoredSeriesGivesAtMost8Points ==
    /\ bot.started =>
          \A d \in DaysOf(bot.exchange_rates) :
              MaxOf(DaysOf(bot.exchange_rates)) - d <= RetentionDays
    /\ bot.history.kind # "none" =>
          /\ Len(bot.history.selected) <= 8
          /\ Len(bot.history.points) <= 8

\* the store has written on 15 days or more in a row and the history over
\* its 15 snapshots has 8 points, the last 14 days before the first
C25_Witness ==
    /\ bot.history.kind = "history"
    /\ Cardinality(DaysOf(bot.history.of)) = RetentionDays + 1
    /\ Len(bot.history.points) = 8
    /\ DayOf(bot.history.points[1].date) - DayOf(bot.history.points[8].date)
          = RetentionDays

====
